---- MODULE Spec2Model ----
(***************************************************************************)
(* Model of ScrapingService (branches/improve-scraping): the page loop of  *)
(* scrapeAnimePages, the retried page fetch of scrapeAnimePage, the two    *)
(* fetch strategies (scrapeWithCheerio, scrapeWithPuppeteer), the axios    *)
(* response interceptor, the browser lifecycle, and the extraction and     *)
(* text normalisation helpers.                                             *)
(*                                                                         *)
(* Text is a sequence of one-character strings.  An item container of the  *)
(* listing markup is a record                                              *)
(*   [hasTitle, titleText, hasImg, src, statusText, raises]                *)
(* hasTitle / hasImg: whether the '.episode-details h3 a' / the            *)
(* '.episode-image img' element exists; src: the img's src attribute ("" *)
(* when the attribute is absent or empty); raises: whether reading the     *)
(* item's fields raises a structural error.  The '.episode-meta' text is   *)
(* read by the code and never used, and scrapedAt is a wall-clock stamp:   *)
(* neither is modelled.                                                    *)
(***************************************************************************)
EXTENDS Integers, Sequences, FiniteSets, TLC

VARIABLES
    config,         \* this.config
    initialConfig,  \* this.config as the constructor built it
    retryService,   \* this.retryService: [maxRetries], fixed by the constructor
    axiosInstance,  \* this.axiosInstance: [timeout, userAgent], fixed by the constructor
    browser,        \* this.browser: 0 is null, otherwise the id of a renderer process
    procs,          \* the renderer processes that are live
    launching,      \* number of puppeteer.launch calls still pending
    closingProcs,   \* handles whose browser.close() of cleanup() is pending
    calls,          \* [made: calls of initializeBrowser, cleanup, updateConfig that
                    \*  had an effect; launched: renderer processes launched]
    pc,             \* where the run of scrapeAnimePages stands
    pages,          \* the argument of scrapeAnimePages
    idx,            \* position in pages of the page of the current loop iteration
    results,        \* the local results of scrapeAnimePages
    returned,       \* the value scrapeAnimePages returned
    attemptNo,      \* number of the current attempt inside retryService.execute
    opError,        \* the error the current attempt rejected with
    opResult,       \* the list the current attempt resolved with
    cooled,         \* ms the response interceptor slept in the current attempt
    handle,         \* the browser handle the current attempt called newPage() on
    tab,            \* the tab page.newPage() opened: 0 is none, else its process id
    step,           \* which call on the tab is pending (1..5)
    sawMarkup,      \* the markup page.evaluate ran on in the current attempt
    attempts,       \* per position: how often the fetch operation was invoked
    outcomes,       \* per position: what each attempt ended with
    delays,         \* per position: how often the inter-page delay was slept after it
    errorLog,       \* the logger.error calls of the page loop, in order
    lastFailure,    \* the failure retryService.execute was handed last
    rawItem,        \* the item container a single extraction is applied to
    extracted,      \* what the single extraction returned
    phase,          \* position of the single extraction or text transform
    inputText,      \* the text a single text transform is applied to
    slugOut,        \* what generateSlug returned for inputText
    statusOut       \* what parseStatus returned for inputText

(***************************************************************************)
(* Text helpers.                                                           *)
(***************************************************************************)
Null == [null |-> TRUE]

IsSpace(c) == c = " "

Upper ==
    <<"A", "B", "C", "D", "E", "F", "G", "H", "I", "J", "K", "L", "M",
      "N", "O", "P", "Q", "R", "S", "T", "U", "V", "W", "X", "Y", "Z">>

Lower ==
    <<"a", "b", "c", "d", "e", "f", "g", "h", "i", "j", "k", "l", "m",
      "n", "o", "p", "q", "r", "s", "t", "u", "v", "w", "x", "y", "z">>

Digits == {"0", "1", "2", "3", "4", "5", "6", "7", "8", "9"}

LowerTable ==
    [c \in {Upper[i] : i \in 1..26} |->
        Lower[CHOOSE i \in 1..26 : Upper[i] = c]]

LowerOf(c) == IF c \in DOMAIN LowerTable THEN LowerTable[c] ELSE c

RECURSIVE DropSpaces(_)
DropSpaces(s) ==
    IF s # << >> /\ IsSpace(Head(s)) THEN DropSpaces(Tail(s)) ELSE s

RECURSIVE DropSpacesEnd(_)
DropSpacesEnd(s) ==
    IF s # << >> /\ IsSpace(s[Len(s)])
    THEN DropSpacesEnd(SubSeq(s, 1, Len(s) - 1))
    ELSE s

\* String.prototype.trim
trim(s) == DropSpacesEnd(DropSpaces(s))

\* String.prototype.toLowerCase
toLowerCase(s) == [i \in 1..Len(s) |-> LowerOf(s[i])]

\* String.prototype.includes
includes(s, needle) ==
    \E i \in 0..(Len(s) - Len(needle)) :
        SubSeq(s, i + 1, i + Len(needle)) = needle

\* the characters /[^a-z0-9\s-]/ leaves in place
SlugChars == {Lower[i] : i \in 1..26} \cup Digits \cup {" ", "-"}

\* .replace(/[^a-z0-9\s-]/g, '')
StripNonSlug(s) == SelectSeq(s, LAMBDA c : c \in SlugChars)

\* .replace(/\s+/g, '-')
RECURSIVE SpacesToHyphen(_)
SpacesToHyphen(s) ==
    IF s = << >> THEN << >>
    ELSE IF IsSpace(Head(s))
         THEN <<"-">> \o SpacesToHyphen(DropSpaces(s))
         ELSE <<Head(s)>> \o SpacesToHyphen(Tail(s))

\* .replace(/-+/g, '-')
RECURSIVE CollapseHyphens(_)
CollapseHyphens(s) ==
    IF Len(s) < 2 THEN s
    ELSE IF s[1] = "-" /\ s[2] = "-"
         THEN CollapseHyphens(Tail(s))
         ELSE <<Head(s)>> \o CollapseHyphens(Tail(s))

generateSlug(title) ==
    trim(CollapseHyphens(SpacesToHyphen(StripNonSlug(toLowerCase(title)))))

W_ongoing == <<"o", "n", "g", "o", "i", "n", "g">>
W_berlangsung == <<"b", "e", "r", "l", "a", "n", "g", "s", "u", "n", "g">>
W_completed == <<"c", "o", "m", "p", "l", "e", "t", "e", "d">>
W_selesai == <<"s", "e", "l", "e", "s", "a", "i">>
W_upcoming == <<"u", "p", "c", "o", "m", "i", "n", "g">>
W_akan_datang == <<"a", "k", "a", "n", " ", "d", "a", "t", "a", "n", "g">>

\* A mutation of parseStatus: the text is matched as it is, not lower-cased.
parseStatus_sensitive(statusText) ==
    IF includes(statusText, W_ongoing) \/ includes(statusText, W_berlangsung)
    THEN "ongoing"
    ELSE IF includes(statusText, W_completed) \/ includes(statusText, W_selesai)
    THEN "completed"
    ELSE IF includes(statusText, W_upcoming)
             \/ includes(statusText, W_akan_datang)
    THEN "upcoming"
    ELSE "ongoing"

parseStatus(statusText) ==
    LET status == toLowerCase(statusText) IN
    IF includes(status, W_ongoing) \/ includes(status, W_berlangsung)
    THEN "ongoing"
    ELSE IF includes(status, W_completed) \/ includes(status, W_selesai)
    THEN "completed"
    ELSE IF includes(status, W_upcoming) \/ includes(status, W_akan_datang)
    THEN "upcoming"
    ELSE "ongoing"

(***************************************************************************)
(* Extraction.                                                             *)
(***************************************************************************)
SourceName == "animeindo"

\* `http://animeindo.web.id/page/${page}/`
PageUrl(page) == <<"http://animeindo.web.id/page/", page, "/">>

Record(title, imageUrl, statusText, url) ==
    [title |-> title,
     slug |-> generateSlug(title),
     imageUrl |-> imageUrl,
     status |-> parseStatus(statusText),
     description |-> << >>,
     genres |-> << >>,
     episodes |-> << >>,
     metadata |-> [originalUrl |-> url, source |-> SourceName]]

\* A mutation of extractAnimeData: the guard joins the two tests with && .
extractAnimeData_and(element, baseUrl) ==
    IF element.raises THEN Null
    ELSE LET title == trim(element.titleText)
             imageUrl == element.src
         IN  IF title = << >> /\ imageUrl = ""
             THEN Null
             ELSE Record(title, imageUrl, trim(element.statusText), baseUrl)

\* extractAnimeData: null when the reads raise (the catch), null when the
\* trimmed title or the src is empty, the record otherwise.
extractAnimeData(element, baseUrl) ==
    IF element.raises THEN Null
    ELSE LET title == trim(element.titleText)
             imageUrl == element.src
         IN  IF title = << >> \/ imageUrl = ""
             THEN Null
             ELSE Record(title, imageUrl, trim(element.statusText), baseUrl)

\* A mutation of CheerioList: the each() callback returns false for an item
\* it drops, which ends the iteration.
RECURSIVE CheerioList_stop(_, _)
CheerioList_stop(markup, url) ==
    IF markup = << >> THEN << >>
    ELSE LET anime == extractAnimeData(Head(markup), url)
         IN  IF anime # Null
             THEN <<anime>> \o CheerioList_stop(Tail(markup), url)
             ELSE << >>

\* The each() callback of scrapeWithCheerio, over the item containers in order.
RECURSIVE CheerioList(_, _)
CheerioList(markup, url) ==
    IF markup = << >> THEN << >>
    ELSE LET anime == extractAnimeData(Head(markup), url)
         IN  (IF anime # Null THEN <<anime>> ELSE << >>)
                 \o CheerioList(Tail(markup), url)

\* The forEach callback inside page.evaluate: a raw object when both elements
\* exist, nothing when one is absent or a read raises.
EvaluateItem(episode) ==
    IF episode.raises THEN << >>
    ELSE IF episode.hasTitle /\ episode.hasImg
         THEN <<[title |-> trim(episode.titleText),
                 imageUrl |-> episode.src,
                 status |-> trim(episode.statusText)]>>
         ELSE << >>

RECURSIVE EvaluateList(_)
EvaluateList(markup) ==
    IF markup = << >> THEN << >>
    ELSE EvaluateItem(Head(markup)) \o EvaluateList(Tail(markup))

\* animeList.map(...) of scrapeWithPuppeteer
PuppeteerList(markup, url) ==
    LET animeList == EvaluateList(markup)
    IN  [i \in 1..Len(animeList) |->
            Record(animeList[i].title, animeList[i].imageUrl,
                   animeList[i].status, url)]

(***************************************************************************)
(* Bounds and inputs.                                                      *)
(***************************************************************************)
MaxPages == 2
MaxRetries == 1
MaxCalls == 2
MaxTextLen == 2

RECURSIVE SeqsUpTo(_, _)
SeqsUpTo(S, n) ==
    IF n = 0 THEN {<< >>}
    ELSE LET shorter == SeqsUpTo(S, n - 1)
         IN  shorter \cup {Append(q, x) : q \in shorter, x \in S}

\* the page list of each length up to MaxPages: 2, 1, 2, 1, ... (neither
\* sorted nor free of repeats)
PageList(n) == [i \in 1..n |-> IF i % 2 = 1 THEN 2 ELSE 1]

PageLists == {PageList(n) : n \in 0..MaxPages}

DefaultTimeout == 30000
DefaultRetries == 3
DefaultDelay == 1000
CooldownMs == 5000
NumSteps == 5

DefaultUserAgent == "Mozilla/5.0"

\* the defaults of the constructor; proxy "" is an absent proxy
DefaultConfig ==
    [usePuppeteer |-> FALSE,
     timeout |-> DefaultTimeout,
     retries |-> DefaultRetries,
     delay |-> DefaultDelay,
     userAgent |-> DefaultUserAgent,
     proxy |-> ""]

\* { ...a, ...b } for a partial config b
Merge(a, b) ==
    [f \in DOMAIN a |-> IF f \in DOMAIN b THEN b[f] ELSE a[f]]

ConstructorInputs ==
    {[usePuppeteer |-> u, retries |-> r] : u \in BOOLEAN, r \in 0..MaxRetries}

ConfigUpdates ==
    {[usePuppeteer |-> FALSE],
     [usePuppeteer |-> TRUE, retries |-> MaxRetries + 1, delay |-> 0,
      userAgent |-> "Bot/1.0", proxy |-> "10.0.0.1:8080"]}

Item(hasTitle, titleText, hasImg, src, statusText, raises) ==
    [hasTitle |-> hasTitle, titleText |-> titleText, hasImg |-> hasImg,
     src |-> src, statusText |-> statusText, raises |-> raises]

ItemA == Item(TRUE, <<"A">>, TRUE, "a.jpg", << >>, FALSE)
ItemB == Item(TRUE, <<" ", "B", "!">>, TRUE, "b.jpg", W_selesai, FALSE)
ItemNoSrc == Item(TRUE, <<"C">>, TRUE, "", << >>, FALSE)
ItemNoText == Item(TRUE, << >>, TRUE, "d.jpg", << >>, FALSE)
ItemBlank == Item(TRUE, <<" ", " ">>, TRUE, "g.jpg", << >>, FALSE)
ItemNoImg == Item(TRUE, <<"E">>, FALSE, "", << >>, FALSE)
ItemRaises == Item(TRUE, <<"F">>, TRUE, "f.jpg", << >>, TRUE)

\* the listing markups a fetch can see
Markups ==
    {<<ItemA, ItemNoSrc, ItemB, ItemBlank, ItemNoText, ItemRaises,
       ItemNoImg>>}

\* HTTP status of a response; 0 is a transport error (no response)
Statuses == {200, 429, 500, 0}

NoError == [kind |-> "none", status |-> 0, attempt |-> 0]
ErrorOf(kind, status, attempt) ==
    [kind |-> kind, status |-> status, attempt |-> attempt]

StepNames ==
    <<"setViewport", "setUserAgent", "goto", "waitForSelector", "evaluate">>

NoMarkup == << >>
\* what an attempt ended with: the markup it saw and the strategy, or failure
Succeeded(markup, rendered) ==
    [ok |-> TRUE, markup |-> markup, rendered |-> rendered]
Failed == [ok |-> FALSE, markup |-> NoMarkup, rendered |-> FALSE]

NoFailure == [error |-> NoError, cooled |-> 0]

\* positions of the run at which the event loop can run other callers
Suspended ==
    {"idle", "get", "cooldown", "backoff", "newPage", "tab", "closing",
     "interDelay", "done"}

svcVars == <<config, initialConfig, retryService, axiosInstance>>
brwVars == <<browser, procs, launching, closingProcs>>
loopVars == <<pages, idx, results, returned>>
opVars ==
    <<attemptNo, opError, opResult, cooled, handle, tab, step, sawMarkup,
      lastFailure>>
histVars == <<attempts, outcomes, delays, errorLog>>
harnessVars == <<rawItem, extracted, phase, inputText, slugOut, statusOut>>
vars ==
    <<svcVars, brwVars, calls, pc, loopVars, opVars, histVars, harnessVars>>

\* what the run never writes
envVars == <<svcVars, brwVars, calls, harnessVars>>

(***************************************************************************)
(* Construction.                                                           *)
(***************************************************************************)
\* A mutation of NewRetryService: the budget counts attempts, not retries.
NewRetryService_more(cfg) == [maxRetries |-> cfg.retries + 1]

\* new RetryService(this.config.retries)
NewRetryService(cfg) == [maxRetries |-> cfg.retries]

\* axios.create({ timeout, headers: { 'User-Agent' } })
NewAxiosInstance(cfg) == [timeout |-> cfg.timeout, userAgent |-> cfg.userAgent]

Constructed(input) ==
    /\ config = Merge(DefaultConfig, input)
    /\ initialConfig = config
    /\ retryService = NewRetryService(config)
    /\ axiosInstance = NewAxiosInstance(config)
    /\ browser = 0
    /\ procs = {}
    /\ launching = 0
    /\ closingProcs = << >>
    /\ calls = [made |-> 0, launched |-> 0]
    /\ pc = "idle"
    /\ pages = << >>
    /\ idx = 0
    /\ results = << >>
    /\ returned = << >>
    /\ attemptNo = 0
    /\ opError = NoError
    /\ opResult = << >>
    /\ cooled = 0
    /\ handle = 0
    /\ tab = 0
    /\ step = 0
    /\ sawMarkup = NoMarkup
    /\ lastFailure = NoFailure
    /\ attempts = << >>
    /\ outcomes = << >>
    /\ delays = << >>
    /\ errorLog = << >>

\* the text transforms at rest
TextIdle ==
    /\ inputText = << >>
    /\ slugOut = << >>
    /\ statusOut = "none"

Init ==
    /\ \E input \in ConstructorInputs : Constructed(input)
    /\ rawItem = ItemA
    /\ extracted = Null
    /\ phase = "off"
    /\ TextIdle

(***************************************************************************)
(* scrapeAnimePages: the page loop.                                        *)
(***************************************************************************)
\* the locals of a finished scrapeAnimePage call
OpReturned ==
    /\ attemptNo' = 0
    /\ opError' = NoError
    /\ opResult' = << >>
    /\ cooled' = 0
    /\ handle' = 0
    /\ step' = 0
    /\ sawMarkup' = NoMarkup
    /\ lastFailure' = NoFailure
    /\ UNCHANGED tab

\* the call: const results = []
scrapeAnimePages(ps) ==
    /\ pc = "idle"
    /\ pages' = ps
    /\ idx' = 1
    /\ results' = << >>
    /\ attempts' = [i \in 1..Len(ps) |-> 0]
    /\ outcomes' = [i \in 1..Len(ps) |-> << >>]
    /\ delays' = [i \in 1..Len(ps) |-> 0]
    /\ pc' = "loop"
    /\ UNCHANGED <<envVars, returned, opVars, errorLog>>

\* A mutation of NextPage: when the list is exhausted the loop starts over
\* at the first page instead of returning.
NextPage_again ==
    /\ pc = "loop"
    /\ IF idx > Len(pages)
       THEN /\ pc' = IF pages = << >> THEN "done" ELSE "loop"
            /\ idx' = 1
            /\ returned' = results
       ELSE /\ pc' = "invoke"
            /\ UNCHANGED <<idx, returned>>
    /\ UNCHANGED <<envVars, pages, results, opVars, histVars>>

\* for (const page of pages): scrapeAnimePage(page) of the next page, or
\* return results
NextPage ==
    /\ pc = "loop"
    /\ IF idx > Len(pages)
       THEN /\ pc' = "done"
            /\ returned' = results
       ELSE /\ pc' = "invoke"
            /\ UNCHANGED returned
    /\ UNCHANGED <<envVars, pages, idx, results, opVars, histVars>>

\* A mutation of PagePushed: the page's records go in front of the list.
PagePushed_front ==
    /\ pc = "resolved"
    /\ results' = opResult \o results
    /\ OpReturned
    /\ pc' = "interDelay"
    /\ UNCHANGED <<envVars, pages, idx, returned, histVars>>

\* const pageData = await this.scrapeAnimePage(page) resolves:
\* results.push(...pageData), then await this.delay(this.config.delay)
PagePushed ==
    /\ pc = "resolved"
    /\ results' = results \o opResult
    /\ OpReturned
    /\ pc' = "interDelay"
    /\ UNCHANGED <<envVars, pages, idx, returned, histVars>>

\* the delay of line 143 ends: the try block and the iteration are over
InterPageDelay ==
    /\ pc = "interDelay"
    /\ delays' = [delays EXCEPT ![idx] = @ + 1]
    /\ idx' = idx + 1
    /\ pc' = "loop"
    /\ UNCHANGED <<envVars, pages, results, returned, opVars, attempts,
                   outcomes, errorLog>>

\* A mutation of PageCaught: the catch block rethrows.
PageCaught_rethrow ==
    /\ pc = "thrown"
    /\ errorLog' = Append(errorLog, [page |-> pages[idx], error |-> opError])
    /\ OpReturned
    /\ pc' = "raised"
    /\ UNCHANGED <<envVars, loopVars, attempts, outcomes, delays>>

\* A mutation of PageCaught: the catch block leaves the loop.
PageCaught_break ==
    /\ pc = "thrown"
    /\ errorLog' = Append(errorLog, [page |-> pages[idx], error |-> opError])
    /\ OpReturned
    /\ idx' = Len(pages) + 1
    /\ pc' = "loop"
    /\ UNCHANGED <<envVars, pages, results, returned, attempts, outcomes,
                   delays>>

\* A mutation of PageCaught: the catch block logs nothing.
PageCaught_silent ==
    /\ pc = "thrown"
    /\ OpReturned
    /\ idx' = idx + 1
    /\ pc' = "loop"
    /\ UNCHANGED <<envVars, pages, results, returned, histVars>>

\* A mutation of PageCaught: the catch block keeps what the failed call had
\* extracted.
PageCaught_partial ==
    /\ pc = "thrown"
    /\ errorLog' = Append(errorLog, [page |-> pages[idx], error |-> opError])
    /\ results' = results \o opResult
    /\ OpReturned
    /\ idx' = idx + 1
    /\ pc' = "loop"
    /\ UNCHANGED <<envVars, pages, returned, attempts, outcomes, delays>>

\* A mutation of PageCaught: after a failed page the loop starts over at the
\* first page.
PageCaught_back ==
    /\ pc = "thrown"
    /\ errorLog' = Append(errorLog, [page |-> pages[idx], error |-> opError])
    /\ OpReturned
    /\ idx' = 1
    /\ pc' = "loop"
    /\ UNCHANGED <<envVars, pages, results, returned, attempts, outcomes,
                   delays>>

\* await this.scrapeAnimePage(page) rejects: catch (error) logs
\* `Error scraping page ${page}:` with the error, and the loop goes on
PageCaught ==
    /\ pc = "thrown"
    /\ errorLog' = Append(errorLog, [page |-> pages[idx], error |-> opError])
    /\ OpReturned
    /\ idx' = idx + 1
    /\ pc' = "loop"
    /\ UNCHANGED <<envVars, pages, results, returned, attempts, outcomes,
                   delays>>

(***************************************************************************)
(* retryService.execute (RetryService is not among the sources: modelled   *)
(* from section 4.3 of the specification).                                 *)
(***************************************************************************)
\* execute invokes the operation
RetryInvoke ==
    /\ pc = "invoke"
    /\ attemptNo' = attemptNo + 1
    /\ attempts' = [attempts EXCEPT ![idx] = @ + 1]
    /\ opError' = NoError
    /\ opResult' = << >>
    /\ cooled' = 0
    /\ sawMarkup' = NoMarkup
    /\ pc' = "op"
    /\ UNCHANGED <<envVars, loopVars, handle, tab, step, lastFailure,
                   outcomes, delays, errorLog>>

\* the operation rejected: wait and retry while attempts are left, fail with
\* this last error otherwise
RetryFailed ==
    /\ pc = "failed"
    /\ lastFailure' = [error |-> opError, cooled |-> cooled]
    /\ pc' = IF attemptNo < 1 + retryService.maxRetries
             THEN "backoff"
             ELSE "thrown"
    /\ UNCHANGED <<envVars, loopVars, attemptNo, opError, opResult, cooled,
                   handle, tab, step, sawMarkup, histVars>>

\* the delay before the next attempt ends
RetryBackoff ==
    /\ pc = "backoff"
    /\ pc' = "invoke"
    /\ UNCHANGED <<envVars, loopVars, opVars, histVars>>

(***************************************************************************)
(* scrapeAnimePage: the operation handed to retryService.execute.          *)
(***************************************************************************)
Settle(outcome) ==
    outcomes' = [outcomes EXCEPT ![idx] = Append(@, outcome)]

\* A mutation of Operation: scrapeWithPuppeteer does not test this.browser
\* before it calls newPage().
Operation_unguarded ==
    /\ pc = "op"
    /\ IF config.usePuppeteer
       THEN /\ handle' = browser
            /\ pc' = "newPage"
       ELSE /\ pc' = "get"
            /\ UNCHANGED handle
    /\ UNCHANGED <<envVars, loopVars, attemptNo, opError, opResult, cooled,
                   tab, step, sawMarkup, lastFailure, histVars>>

\* A mutation of Operation: scrapeWithPuppeteer launches the renderer itself
\* when this.browser is null.
Operation_lazy ==
    /\ pc = "op"
    /\ IF config.usePuppeteer
       THEN /\ IF browser = 0
               THEN /\ calls' = [calls EXCEPT !.launched = @ + 1]
                    /\ procs' = procs \cup {calls'.launched}
                    /\ browser' = calls'.launched
               ELSE UNCHANGED <<calls, procs, browser>>
            /\ handle' = browser'
            /\ pc' = "newPage"
       ELSE /\ pc' = "get"
            /\ UNCHANGED <<calls, procs, browser, handle>>
    /\ UNCHANGED <<svcVars, launching, closingProcs, harnessVars, loopVars,
                   attemptNo, opError, opResult, cooled, tab, step, sawMarkup,
                   lastFailure, histVars>>

\* if (this.config.usePuppeteer) scrapeWithPuppeteer(url) else
\* scrapeWithCheerio(url); scrapeWithPuppeteer throws at once when
\* this.browser is null and calls this.browser.newPage() otherwise
Operation ==
    /\ pc = "op"
    /\ IF config.usePuppeteer
       THEN IF browser = 0
            THEN /\ opError' =
                        ErrorOf("Browser not initialized", 0, attemptNo)
                 /\ Settle(Failed)
                 /\ pc' = "failed"
                 /\ UNCHANGED handle
            ELSE /\ handle' = browser
                 /\ pc' = "newPage"
                 /\ UNCHANGED <<opError, outcomes>>
       ELSE /\ pc' = "get"
            /\ UNCHANGED <<opError, outcomes, handle>>
    /\ UNCHANGED <<envVars, loopVars, attemptNo, opResult, cooled, tab, step,
                   sawMarkup, lastFailure, attempts, delays, errorLog>>

(***************************************************************************)
(* scrapeWithCheerio and the response interceptor.                         *)
(***************************************************************************)
\* A mutation of InterceptorCooldown: every error response cools down.
InterceptorCooldown_all(status) == IF status >= 400 THEN CooldownMs ELSE 0

\* the ms the response interceptor sleeps before it rethrows an error:
\* if (error.response?.status === 429) await this.delay(5000)
InterceptorCooldown(status) == IF status = 429 THEN CooldownMs ELSE 0

\* this.axiosInstance.get(url) settles.  A 200 response resolves, and the
\* each() loop extracts the list; any other outcome goes to the interceptor's
\* error handler, which sleeps first or rejects at once.
AxiosGet(status, markup) ==
    /\ pc = "get"
    /\ IF status = 200
       THEN /\ opResult' = CheerioList(markup, PageUrl(pages[idx]))
            /\ Settle(Succeeded(markup, FALSE))
            /\ pc' = "resolved"
            /\ UNCHANGED opError
       ELSE /\ opError' =
                   ErrorOf(IF status = 0 THEN "transport" ELSE "http",
                           status, attemptNo)
            /\ IF InterceptorCooldown(status) > 0
               THEN pc' = "cooldown" /\ UNCHANGED outcomes
               ELSE pc' = "failed" /\ Settle(Failed)
            /\ UNCHANGED opResult
    /\ UNCHANGED <<envVars, loopVars, attemptNo, cooled, handle, tab, step,
                   sawMarkup, lastFailure, attempts, delays, errorLog>>

\* A mutation of CooldownDone: after the sleep the interceptor swallows the
\* error and resolves with nothing.
CooldownDone_swallow ==
    /\ pc = "cooldown"
    /\ cooled' = InterceptorCooldown(opError.status)
    /\ Settle(Failed)
    /\ pc' = "resolved"
    /\ UNCHANGED <<envVars, loopVars, attemptNo, opError, opResult, handle,
                   tab, step, sawMarkup, lastFailure, attempts, delays,
                   errorLog>>

\* the interceptor's delay ends: throw error, and the get() rejects
CooldownDone ==
    /\ pc = "cooldown"
    /\ cooled' = InterceptorCooldown(opError.status)
    /\ Settle(Failed)
    /\ pc' = "failed"
    /\ UNCHANGED <<envVars, loopVars, attemptNo, opError, opResult, handle,
                   tab, step, sawMarkup, lastFailure, attempts, delays,
                   errorLog>>

(***************************************************************************)
(* scrapeWithPuppeteer.                                                    *)
(***************************************************************************)
\* this.browser.newPage() settles: a tab of a live process, or a rejection
NewPage(ok) ==
    /\ pc = "newPage"
    /\ IF ok
       THEN /\ handle \in procs
            /\ tab' = handle
            /\ step' = 1
            /\ pc' = "tab"
            /\ UNCHANGED <<opError, outcomes>>
       ELSE /\ opError' = ErrorOf("newPage", 0, attemptNo)
            /\ Settle(Failed)
            /\ pc' = "failed"
            /\ UNCHANGED <<tab, step>>
    /\ UNCHANGED <<envVars, loopVars, attemptNo, opResult, cooled, handle,
                   sawMarkup, lastFailure, attempts, delays, errorLog>>

\* one of setViewport, setUserAgent, goto, waitForSelector, evaluate settles;
\* the last one resolves with the list evaluate returned, mapped to records.
\* Either way the finally block runs next.
TabStep(ok, markup) ==
    /\ pc = "tab"
    /\ IF ok
       THEN /\ tab \in procs
            /\ IF step < NumSteps
               THEN /\ step' = step + 1
                    /\ UNCHANGED <<pc, opResult, sawMarkup>>
               ELSE /\ opResult' = PuppeteerList(markup, PageUrl(pages[idx]))
                    /\ sawMarkup' = markup
                    /\ pc' = "closing"
                    /\ UNCHANGED step
            /\ UNCHANGED opError
       ELSE /\ opError' = ErrorOf(StepNames[step], 0, attemptNo)
            /\ pc' = "closing"
            /\ UNCHANGED <<step, opResult, sawMarkup>>
    /\ UNCHANGED <<envVars, loopVars, attemptNo, cooled, handle, tab,
                   lastFailure, histVars>>

\* A mutation of TabClose: the tab is closed on the success path only.
TabClose_leak ==
    /\ pc = "closing"
    /\ IF opError = NoError
       THEN /\ tab' = 0
            /\ Settle(Succeeded(sawMarkup, TRUE))
            /\ pc' = "resolved"
       ELSE /\ UNCHANGED tab
            /\ Settle(Failed)
            /\ pc' = "failed"
    /\ UNCHANGED <<envVars, loopVars, attemptNo, opError, opResult, cooled,
                   handle, step, sawMarkup, lastFailure, attempts, delays,
                   errorLog>>

\* finally { await page.close() }: the tab is gone when close() settles.
\* close() resolves on a live renderer process, and the attempt then ends as
\* the try block ended; on a process that cleanup() has closed meanwhile (the
\* tab went with it) close() rejects, and its error is what the attempt
\* rejects with, whatever the try block had returned or thrown.
TabClose ==
    /\ pc = "closing"
    /\ tab' = 0
    /\ IF tab \in procs
       THEN /\ IF opError = NoError
               THEN Settle(Succeeded(sawMarkup, TRUE)) /\ pc' = "resolved"
               ELSE Settle(Failed) /\ pc' = "failed"
            /\ UNCHANGED opError
       ELSE /\ opError' = ErrorOf("close", 0, attemptNo)
            /\ Settle(Failed)
            /\ pc' = "failed"
    /\ UNCHANGED <<envVars, loopVars, attemptNo, opResult, cooled, handle,
                   step, sawMarkup, lastFailure, attempts, delays, errorLog>>

(***************************************************************************)
(* Browser lifecycle and configuration, called by others while the run is  *)
(* suspended at an await.                                                  *)
(***************************************************************************)
runVars == <<pc, loopVars, opVars, histVars>>

\* calls of initializeBrowser, cleanup and updateConfig that had an effect
CallsMade == calls.made

\* initializeBrowser(): puppeteer.launch is awaited when usePuppeteer is set
\* and this.browser is null (a call that finds the test false returns at
\* once and changes nothing: a stuttering step)
initializeBrowser ==
    /\ pc \in Suspended
    /\ CallsMade < MaxCalls
    /\ config.usePuppeteer /\ browser = 0
    /\ calls' = [calls EXCEPT !.made = @ + 1]
    /\ launching' = launching + 1
    /\ UNCHANGED <<svcVars, browser, procs, closingProcs, runVars,
                   harnessVars>>

\* puppeteer.launch settles: this.browser = the new process, or a rejection
LaunchDone(ok) ==
    /\ pc \in Suspended
    /\ launching > 0
    /\ launching' = launching - 1
    /\ IF ok
       THEN /\ calls' = [calls EXCEPT !.launched = @ + 1]
            /\ procs' = procs \cup {calls'.launched}
            /\ browser' = calls'.launched
       ELSE UNCHANGED <<calls, procs, browser>>
    /\ UNCHANGED <<svcVars, closingProcs, runVars, harnessVars>>

\* cleanup(): this.browser.close() is awaited when this.browser is set (a
\* call that finds it null changes nothing: a stuttering step)
cleanup ==
    /\ pc \in Suspended
    /\ CallsMade < MaxCalls
    /\ browser # 0
    /\ calls' = [calls EXCEPT !.made = @ + 1]
    /\ closingProcs' = Append(closingProcs, browser)
    /\ UNCHANGED <<svcVars, browser, procs, launching, runVars, harnessVars>>

\* A mutation of CloseDone: cleanup() does not reset this.browser.
CloseDone_keep(i) ==
    /\ pc \in Suspended
    /\ i \in 1..Len(closingProcs)
    /\ procs' = procs \ {closingProcs[i]}
    /\ closingProcs' =
           SubSeq(closingProcs, 1, i - 1)
               \o SubSeq(closingProcs, i + 1, Len(closingProcs))
    /\ UNCHANGED <<svcVars, browser, launching, calls, runVars, harnessVars>>

\* browser.close() settles: this.browser = null
CloseDone(i) ==
    /\ pc \in Suspended
    /\ i \in 1..Len(closingProcs)
    /\ procs' = procs \ {closingProcs[i]}
    /\ browser' = 0
    /\ closingProcs' =
           SubSeq(closingProcs, 1, i - 1)
               \o SubSeq(closingProcs, i + 1, Len(closingProcs))
    /\ UNCHANGED <<svcVars, launching, calls, runVars, harnessVars>>

\* A mutation of updateConfig: the retry service is rebuilt from the new
\* config.
updateConfig_rebuild(newConfig) ==
    /\ pc \in Suspended
    /\ CallsMade < MaxCalls
    /\ Merge(config, newConfig) # config
    /\ calls' = [calls EXCEPT !.made = @ + 1]
    /\ config' = Merge(config, newConfig)
    /\ retryService' = NewRetryService(config')
    /\ UNCHANGED <<initialConfig, axiosInstance, brwVars, runVars,
                   harnessVars>>

\* this.config = { ...this.config, ...newConfig } (an update that changes no
\* field is a stuttering step)
updateConfig(newConfig) ==
    /\ pc \in Suspended
    /\ CallsMade < MaxCalls
    /\ Merge(config, newConfig) # config
    /\ calls' = [calls EXCEPT !.made = @ + 1]
    /\ config' = Merge(config, newConfig)
    /\ UNCHANGED <<initialConfig, retryService, axiosInstance, brwVars,
                   runVars, harnessVars>>

\* getStats()
getStats == [config |-> config, browserActive |-> browser # 0]

Next ==
    \/ \E ps \in PageLists : scrapeAnimePages(ps)
    \/ NextPage
    \/ PagePushed
    \/ InterPageDelay
    \/ PageCaught
    \/ RetryInvoke
    \/ RetryFailed
    \/ RetryBackoff
    \/ Operation
    \/ \E status \in Statuses, markup \in Markups : AxiosGet(status, markup)
    \/ CooldownDone
    \/ \E ok \in BOOLEAN : NewPage(ok)
    \/ \E ok \in BOOLEAN, markup \in Markups : TabStep(ok, markup)
    \/ TabClose
    \/ initializeBrowser
    \/ \E ok \in BOOLEAN : LaunchDone(ok)
    \/ cleanup
    \/ \E i \in 1..MaxCalls : CloseDone(i)
    \/ \E newConfig \in ConfigUpdates : updateConfig(newConfig)

Spec == Init /\ [][Next]_vars

(***************************************************************************)
(* A single extraction: extractAnimeData applied to one item container.    *)
(***************************************************************************)
TextAlphabet == {"A", " "}

Texts == SeqsUpTo(TextAlphabet, MaxTextLen)

RawItems ==
    {Item(hasTitle, IF hasTitle THEN t ELSE << >>,
          img[1], img[2], st, raises) :
        hasTitle \in BOOLEAN, t \in Texts,
        img \in {<<FALSE, "">>, <<TRUE, "">>, <<TRUE, "a.jpg">>},
        st \in {<< >>, W_selesai}, raises \in BOOLEAN}

InitExtract ==
    /\ Constructed([usePuppeteer |-> FALSE])
    /\ rawItem \in RawItems
    /\ extracted = Null
    /\ phase = "input"
    /\ TextIdle

ExtractStep ==
    /\ phase = "input"
    /\ extracted' = extractAnimeData(rawItem, PageUrl(1))
    /\ phase' = "extracted"
    /\ UNCHANGED <<svcVars, brwVars, calls, runVars, rawItem, inputText,
                   slugOut, statusOut>>

NextExtract == ExtractStep

SpecExtract == InitExtract /\ [][NextExtract]_vars

(***************************************************************************)
(* A single text transform: generateSlug or parseStatus applied to a text. *)
(***************************************************************************)
MaxTitleLen == 3

TitleAlphabet == {"A", "b", "1", " ", "-", "!"}

Titles == SeqsUpTo(TitleAlphabet, MaxTitleLen)

UpperOf(c) ==
    IF \E i \in 1..26 : Lower[i] = c
    THEN Upper[CHOOSE i \in 1..26 : Lower[i] = c]
    ELSE c

toUpperCase(s) == [i \in 1..Len(s) |-> UpperOf(s[i])]

Capitalised(s) == [i \in 1..Len(s) |-> IF i = 1 THEN UpperOf(s[i]) ELSE s[i]]

Markers ==
    {W_ongoing, W_berlangsung, W_completed, W_selesai, W_upcoming,
     W_akan_datang}

\* texts that hold no marker: empty, an unlisted word, and near misses
W_tamat == <<"t", "a", "m", "a", "t">>
W_ongoin == <<"o", "n", "g", "o", "i", "n">>
W_akan_2_datang == <<"a", "k", "a", "n", " ", " ", "d", "a", "t", "a", "n", "g">>
W_sele_sai == <<"s", "e", "l", "e", "-", "s", "a", "i">>

Unmarked == {<< >>, W_tamat, W_ongoin, W_akan_2_datang, W_sele_sai}

Pads == {<< >>, <<" ">>, <<"E", "p", " ", "1", ":">>}

\* a marker or none, in lower case, upper case or capitalised, with text
\* before it and text or a second marker after it
StatusTexts ==
    {p \o f \o q :
        p \in Pads,
        f \in Unmarked \cup Markers
                \cup {toUpperCase(m) : m \in Markers}
                \cup {Capitalised(m) : m \in Markers},
        q \in Pads \cup Markers}

InitText ==
    /\ Constructed([usePuppeteer |-> FALSE])
    /\ rawItem = ItemA
    /\ extracted = Null
    /\ phase = "text"
    /\ inputText \in Titles \cup StatusTexts
    /\ slugOut = << >>
    /\ statusOut = "none"

SlugStep ==
    /\ phase = "text"
    /\ slugOut' = generateSlug(inputText)
    /\ phase' = "slug"
    /\ UNCHANGED <<svcVars, brwVars, calls, runVars, rawItem, extracted,
                   inputText, statusOut>>

StatusStep ==
    /\ phase = "text"
    /\ statusOut' = parseStatus(inputText)
    /\ phase' = "status"
    /\ UNCHANGED <<svcVars, brwVars, calls, runVars, rawItem, extracted,
                   inputText, slugOut>>

NextText == SlugStep \/ StatusStep

SpecText == InitText /\ [][NextText]_vars

(***************************************************************************)
(* Properties.                                                             *)
(***************************************************************************)
Positions == 1..Len(pages)

\* no attempt made for position i has succeeded
NoneOk(i) == \A k \in 1..Len(outcomes[i]) : ~outcomes[i][k].ok

\* position i was attempted and its retries are exhausted
Exhausted(i) == i < idx /\ NoneOk(i)

\* the records each strategy yields for each markup and page number
RecordLists ==
    [rendered \in BOOLEAN, markup \in Markups, p \in {1, 2} |->
        IF rendered
        THEN PuppeteerList(markup, PageUrl(p))
        ELSE CheerioList(markup, PageUrl(p))]

\* the records the attempt of outcome o yields for page number p
RecordsOf(o, p) == RecordLists[o.rendered, o.markup, p]

LastOutcome(i) == outcomes[i][Len(outcomes[i])]

\* position i has added its records to results
Pushed(i) == (i < idx \/ (i = idx /\ pc = "interDelay")) /\ ~NoneOk(i)

RECURSIVE ExpectedResults(_)
ExpectedResults(n) ==
    IF n = 0 THEN << >>
    ELSE ExpectedResults(n - 1)
             \o (IF Pushed(n) THEN RecordsOf(LastOutcome(n), pages[n])
                 ELSE << >>)

RECURSIVE ExhaustedPages(_)
ExhaustedPages(n) ==
    IF n = 0 THEN << >>
    ELSE ExhaustedPages(n - 1)
             \o (IF Exhausted(n) THEN <<pages[n]>> ELSE << >>)

\* the PageError entries a returned value holds
PageErrorsOf(value) ==
    SelectSeq(value, LAMBDA r : "pageNumber" \in DOMAIN r)

RunNext ==
    \/ NextPage
    \/ PagePushed
    \/ InterPageDelay
    \/ PageCaught
    \/ RetryInvoke
    \/ RetryFailed
    \/ RetryBackoff
    \/ Operation
    \/ \E status \in Statuses, markup \in Markups : AxiosGet(status, markup)
    \/ CooldownDone
    \/ \E ok \in BOOLEAN : NewPage(ok)
    \/ \E ok \in BOOLEAN, markup \in Markups : TabStep(ok, markup)
    \/ TabClose

\* C1: when the run has returned, every page of the list has been attempted,
\* whichever pages failed after all their retries; and during the run every
\* position before the current one has been attempted.
C1_EveryPageAttempted ==
    /\ \A i \in Positions : i < idx => attempts[i] >= 1
    /\ pc = "done" => \A i \in Positions : attempts[i] >= 1

\* a page failed terminally and the page after it was attempted
C1_Witness ==
    /\ pc = "done"
    /\ Len(pages) >= 2
    /\ Exhausted(1)
    /\ attempts[2] >= 1

\* C2: the run never ends by raising to its caller and is never stuck before
\* it has returned; when every page failed, the list it returns is empty.
C2_RunReturns ==
    /\ pc # "raised"
    /\ pc \notin {"idle", "done"} => ENABLED RunNext
    /\ (pc = "done" /\ \A i \in Positions : NoneOk(i)) => returned = << >>

\* a run of two pages has returned with both pages failed
C2_Witness ==
    /\ pc = "done"
    /\ Len(pages) >= 2
    /\ \A i \in Positions : Exhausted(i)
    /\ returned = << >>

C4_ResultsInOrder ==
    results = ExpectedResults(Len(pages))

\* two pages have succeeded and the list holds the records of both
C4_Witness ==
    /\ pc = "done"
    /\ Len(pages) >= 2
    /\ Pushed(1)
    /\ Pushed(2)
    /\ Len(results) >= 4
    /\ results[1].metadata.originalUrl # results[Len(results)].metadata.originalUrl

\* C5 as claimed: after every finished page but the last the inter-page
\* delay was slept once, and after the last page it was not slept.
C5_AsClaimed ==
    \A i \in Positions :
        i < idx => delays[i] = (IF i < Len(pages) THEN 1 ELSE 0)

\* the attempts of position i never exceed the budget, stop at the first
\* success, and are all used when none succeeds
AttemptsWithin(i, budget) ==
    /\ attempts[i] <= budget
    /\ \A k \in 1..Len(outcomes[i]) :
           outcomes[i][k].ok => (k = Len(outcomes[i]) /\ attempts[i] = k)
    /\ Exhausted(i) => attempts[i] = budget

\* C6: for each page the fetch operation is invoked at most 1 + maxRetries
\* times (maxRetries as given to the constructor), exactly that often when
\* every attempt fails, and not again after the first attempt that succeeds,
\* whose result is the one handed to the page loop.
C6_AttemptBudget ==
    /\ \A i \in Positions : AttemptsWithin(i, 1 + initialConfig.retries)
    /\ pc = "resolved" =>
           /\ LastOutcome(idx).ok
           /\ opResult = RecordsOf(LastOutcome(idx), pages[idx])

\* one page used its whole budget of two attempts and failed, the next one
\* succeeded at its second attempt
C6_Witness ==
    /\ pc = "done"
    /\ Len(pages) = 2
    /\ initialConfig.retries = 1
    /\ Exhausted(1) /\ attempts[1] = 2
    /\ attempts[2] = 2 /\ LastOutcome(2).ok

\* C7: a page whose attempts all fail ends after the last attempt of the
\* budget with that attempt's error, which reaches the page loop's catch; an
\* attempt that failed is never turned into a success.
C7_LastErrorThrown ==
    /\ pc = "thrown" =>
           /\ NoneOk(idx)
           /\ attemptNo = 1 + retryService.maxRetries
           /\ attempts[idx] = attemptNo
           /\ opError # NoError
           /\ opError.attempt = attemptNo
           /\ lastFailure.error = opError
    /\ pc = "resolved" => (opError = NoError /\ LastOutcome(idx).ok)
    /\ \A i \in 1..Len(errorLog) :
           /\ errorLog[i].error # NoError
           /\ errorLog[i].error.attempt = 1 + retryService.maxRetries

\* the second of two attempts failed and its error is being thrown
C7_Witness ==
    /\ pc = "thrown"
    /\ attemptNo = 2
    /\ opError.attempt = 2

\* C8: a static fetch that received HTTP 429 reaches the retry policy as a
\* failure, and only after the interceptor has slept the cooldown; every
\* other failure reaches it without a cooldown.
C8_CooldownOn429 ==
    /\ pc = "cooldown" => opError.status = 429
    /\ pc = "failed" =>
           /\ opError # NoError
           /\ cooled = (IF opError.status = 429 THEN CooldownMs ELSE 0)
    /\ lastFailure # NoFailure =>
           /\ lastFailure.error # NoError
           /\ lastFailure.cooled =
                  (IF lastFailure.error.status = 429 THEN CooldownMs ELSE 0)
    /\ (pc = "get" /\ attemptNo > 1) => lastFailure # NoFailure

\* the retry policy makes its second attempt after a 429 and its cooldown
C8_Witness ==
    /\ pc = "get"
    /\ attemptNo = 2
    /\ lastFailure.error.status = 429
    /\ lastFailure.cooled = CooldownMs

WellFormed(list) ==
    \A i \in 1..Len(list) : list[i].title # << >> /\ list[i].imageUrl # ""

\* C9 as claimed: no record with an empty title or an empty imageUrl is in
\* the output of a page fetch or of a run.
C9_AsClaimed ==
    /\ WellFormed(opResult)
    /\ WellFormed(results)
    /\ WellFormed(returned)

\* C10 as claimed: nothing when the item's title or image URL is missing or
\* empty, otherwise a record with the item's title and image URL.
C10_AsClaimed ==
    phase = "extracted" =>
        IF \/ ~rawItem.hasTitle \/ rawItem.titleText = << >>
           \/ ~rawItem.hasImg \/ rawItem.src = ""
        THEN extracted = Null
        ELSE /\ extracted # Null
             /\ extracted.title = rawItem.titleText
             /\ extracted.imageUrl = rawItem.src

Blank(text) == \A i \in 1..Len(text) : IsSpace(text[i])

\* text is t with whitespace around it, and t has none at its ends
TrimmedTo(text, t) ==
    /\ t # << >>
    /\ ~IsSpace(t[1])
    /\ ~IsSpace(t[Len(t)])
    /\ \E i \in 0..Len(text) :
           /\ i + Len(t) <= Len(text)
           /\ SubSeq(text, i + 1, i + Len(t)) = t
           /\ Blank(SubSeq(text, 1, i))
           /\ Blank(SubSeq(text, i + Len(t) + 1, Len(text)))

\* C10, amended: nothing when reading the item raises, when its title is
\* missing, empty or only whitespace, or when its image URL is missing or
\* empty; otherwise a record whose title is the item's title without the
\* whitespace around it and whose imageUrl is the item's image URL.
C10_Extractor ==
    phase = "extracted" =>
        IF \/ rawItem.raises
           \/ Blank(rawItem.titleText)
           \/ rawItem.src = ""
        THEN extracted = Null
        ELSE /\ extracted # Null
             /\ TrimmedTo(rawItem.titleText, extracted.title)
             /\ extracted.imageUrl = rawItem.src

\* an item with whitespace around its title was extracted to a record
C10_Witness ==
    /\ phase = "extracted"
    /\ extracted # Null
    /\ extracted.title # rawItem.titleText
    /\ extracted.imageUrl = rawItem.src

\* the attempt holds a tab it has not closed yet
TabHeld == tab # 0

\* C11: a rendered attempt holds a tab only between the newPage() that opened
\* it and the close() of its finally block: when the attempt has completed,
\* with a result or with the error of any step, and so between attempts,
\* between pages and after the run, no tab is left.
C11_TabsClosed ==
    /\ TabHeld => pc \in {"tab", "closing"}
    /\ pc \in {"resolved", "failed", "backoff", "thrown", "done"} => tab = 0
    /\ pc = "closing" =>
           (opError = NoError \/ \E k \in 1..NumSteps : opError.kind = StepNames[k])

\* an attempt whose navigation failed has completed, and its tab is closed
C11_Witness ==
    /\ pc = "failed"
    /\ opError.kind = "goto"
    /\ handle \in procs
    /\ tab = 0

CleanupCompletes == Len(closingProcs') < Len(closingProcs)

SameLetter(a, b) ==
    a = b \/ \E j \in 1..26 : {a, b} = {Upper[j], Lower[j]}

\* text holds the marker somewhere, in whatever case
Mentions(text, marker) ==
    \E i \in 0..(Len(text) - Len(marker)) :
        \A k \in 1..Len(marker) : SameLetter(text[i + k], marker[k])

\* C14: for every text the status normaliser returns one of ongoing,
\* completed, upcoming: ongoing when the text holds 'ongoing' or
\* 'berlangsung' in any case, otherwise completed when it holds 'completed'
\* or 'selesai', otherwise upcoming when it holds 'upcoming' or 'akan
\* datang', and ongoing when it holds none of the markers.
C14_StatusNormalised ==
    phase = "status" =>
        /\ statusOut \in {"ongoing", "completed", "upcoming"}
        /\ statusOut =
               IF Mentions(inputText, W_ongoing)
                      \/ Mentions(inputText, W_berlangsung)
               THEN "ongoing"
               ELSE IF Mentions(inputText, W_completed)
                           \/ Mentions(inputText, W_selesai)
               THEN "completed"
               ELSE IF Mentions(inputText, W_upcoming)
                           \/ Mentions(inputText, W_akan_datang)
               THEN "upcoming"
               ELSE "ongoing"

\* a text holding 'SELESAI' in upper case was normalised to completed
C14_Witness ==
    /\ phase = "status"
    /\ Mentions(inputText, W_selesai)
    /\ ~includes(inputText, W_selesai)
    /\ statusOut = "completed"

SlugSafe == {Lower[i] : i \in 1..26} \cup Digits \cup {"-"}

\* C15 as claimed: the slug of every title holds only characters of
\* [a-z0-9-], neither starts nor ends with a hyphen, and has no two hyphens
\* in a row.
C15_AsClaimed ==
    phase = "slug" =>
        /\ \A i \in 1..Len(slugOut) : slugOut[i] \in SlugSafe
        /\ slugOut # << >> =>
               (slugOut[1] # "-" /\ slugOut[Len(slugOut)] # "-")
        /\ \A i \in 1..(Len(slugOut) - 1) :
               ~(slugOut[i] = "-" /\ slugOut[i + 1] = "-")

\* the fetch attempts of position i that have started and not yet finished
InFlight(i) == attempts[i] - Len(outcomes[i])

\* positions of the run at which a fetch attempt is under way
Fetching == {"op", "get", "cooldown", "newPage", "tab", "closing"}

\* C16: at most one fetch attempt is in flight at any time, and it belongs
\* to the current page; every page before the current one has been attempted
\* and all its attempts have finished, and no page after the current one has
\* been attempted yet: pages are fetched one after the other in list order.
C16_OneFetchAtATime ==
    /\ \A i \in Positions : InFlight(i) \in {0, 1}
    /\ \A i \in Positions :
           InFlight(i) = 1 => (i = idx /\ pc \in Fetching)
    /\ pc \in Fetching => InFlight(idx) = 1
    /\ \A i \in Positions :
           i < idx => (attempts[i] >= 1 /\ InFlight(i) = 0)
    /\ \A i \in Positions : i > idx => attempts[i] = 0

\* the second page is being fetched for the first time after both attempts
\* of the first page have finished
C16_Witness ==
    /\ pc \in Fetching
    /\ idx = 2
    /\ attempts[1] = 2
    /\ Len(outcomes[1]) = 2
    /\ attempts[2] = 1
    /\ InFlight(2) = 1

\* an item the extraction has to drop: reading it raises, its title is
\* missing or empty (all whitespace included), or its image URL is missing
\* or empty
Malformed(item) ==
    item.raises \/ Blank(item.titleText) \/ item.src = ""

WellFormedItems(markup) == SelectSeq(markup, LAMBDA item : ~Malformed(item))

C18_AsClaimed ==
    /\ Cardinality(procs) <= 1
    /\ \A p \in procs : p = browser

\* the attempt under way uses the rendered strategy
RenderedNow == pc \in {"newPage", "tab", "closing"}

\* the attempt under way uses the static strategy
StaticNow == pc \in {"get", "cooldown"}

\* C19 as claimed: every attempt of a run uses the fetch strategy of the
\* attempts before it: while a fetch is under way, every fetch of the run
\* that succeeded earlier used the same strategy.
C19_AsClaimed ==
    (RenderedNow \/ StaticNow) =>
        \A i \in Positions : \A k \in 1..Len(outcomes[i]) :
            outcomes[i][k].ok => (outcomes[i][k].rendered = RenderedNow)

\* the page number in the URL a record was extracted from
PageOf(r) == r.metadata.originalUrl[2]

\* the number of records the successful attempts of the pushed positions
\* 1..n resolved with
RECURSIVE PushedCount(_)
PushedCount(n) ==
    IF n = 0 THEN 0
    ELSE PushedCount(n - 1)
             + (IF Pushed(n) THEN Len(RecordsOf(LastOutcome(n), pages[n]))
                ELSE 0)

\* C20: the result list holds as many records as the successful attempts of
\* the positions pushed so far resolved with, all of them or none per page,
\* and every record in it comes from the page of a pushed position: what an
\* attempt extracted before it failed, what a page extracted before it
\* exhausted its retries, and what the attempt under way has extracted so
\* far is not in the list.
C20_PageAtomic ==
    /\ Len(results) = PushedCount(Len(pages))
    /\ \A k \in 1..Len(results) :
           \E i \in Positions : Pushed(i) /\ pages[i] = PageOf(results[k])
    /\ (\A i \in Positions : ~Pushed(i)) => results = << >>

\* the first page was pushed; the second page's last attempt extracted its
\* records and then failed in page.close(): the list holds the first page's
\* records only
C20_Witness ==
    /\ pc = "thrown"
    /\ idx = 2
    /\ opError.kind = "close"
    /\ opResult # << >>
    /\ Pushed(1)
    /\ results = RecordsOf(LastOutcome(1), pages[1])

\* a rendered fetch attempt starts in this step and finds no renderer
StartsWithoutRenderer == pc = "op" /\ config.usePuppeteer /\ browser = 0

\* a tab is opened in this step
TabOpens == tab = 0 /\ tab' # 0

\* C21: a rendered fetch attempt that starts while this.browser is null, as
\* it is from the completion of cleanup() to the completion of a later
\* initializeBrowser(), fails with 'Browser not initialized' and opens no
\* tab; and whenever a tab is opened, it is opened on a renderer process
\* that is live.
C21_NoTabOnReleased ==
    [][/\ StartsWithoutRenderer =>
              /\ pc' = "failed"
              /\ opError'.kind = "Browser not initialized"
              /\ tab' = 0
              /\ UNCHANGED <<browser, procs, launching>>
       /\ TabOpens => (tab' \in procs /\ tab' = handle)]_vars

\* the renderer was launched and cleanup() has completed; a rendered attempt
\* that started afterwards has failed for want of a renderer, with no tab
C21_Witness ==
    /\ pc = "failed"
    /\ opError.kind = "Browser not initialized"
    /\ calls.launched = 1
    /\ closingProcs = << >>
    /\ launching = 0
    /\ procs = {}
    /\ browser = 0
    /\ tab = 0

\* the stored config changes in this step
ConfigChanges == config' # config

\* C22: a step that changes the stored config changes nothing else of the
\* service or of the run; the retry service and the HTTP client stay as the
\* constructor built them from its config, so that the retry budget, the
\* HTTP timeout and the User-Agent header of every later fetch are those
\* given at construction, whatever the stored config says.
C22_UpdateConfigFrame ==
    [][/\ ConfigChanges =>
              UNCHANGED <<browser, procs, launching, closingProcs,
                          retryService, axiosInstance, initialConfig,
                          runVars>>
       /\ retryService' = NewRetryService(initialConfig)
       /\ axiosInstance' = NewAxiosInstance(initialConfig)]_vars

\* updateConfig has changed retries and userAgent while a static fetch of
\* the run is pending; the retry service and the HTTP client hold the
\* constructor's values
C22_Witness ==
    /\ pc = "get"
    /\ calls.made = 1
    /\ config.retries # initialConfig.retries
    /\ config.userAgent # initialConfig.userAgent
    /\ retryService.maxRetries = initialConfig.retries
    /\ axiosInstance.userAgent = initialConfig.userAgent
    /\ axiosInstance.timeout = initialConfig.timeout

(***************************************************************************)
(* Termination.  A pending fetch attempt, cooldown, back-off delay or       *)
(* inter-page delay settles at some time, and the code that follows an      *)
(* await runs when it has settled: the steps of the run are taken while     *)
(* they are possible.  Nothing is assumed about when, or whether, other     *)
(* callers call initializeBrowser, cleanup or updateConfig.                 *)
(***************************************************************************)
SpecLive == Spec /\ WF_vars(RunNext)

\* C23: a run that was started returns at some time, and no page of it is
\* ever fetched more than 1 + retries times, with retries as given to the
\* constructor.
C23_RunTerminates ==
    /\ (pc # "idle") ~> (pc = "done")
    /\ [](\A i \in Positions : attempts[i] <= 1 + initialConfig.retries)

\* a run of two pages has returned after every attempt of both pages failed:
\* two attempts each with one retry allowed
C23_Witness ==
    /\ pc = "done"
    /\ Len(pages) = 2
    /\ initialConfig.retries = 1
    /\ \A i \in Positions : attempts[i] = 2 /\ NoneOk(i)
    /\ Len(errorLog) = 2

====
